---- MODULE Spec2Model ----
(***************************************************************************)
(* Quasi-static scheduler of the threaded C runtime of Lingua Franca       *)
(* (core/threaded/scheduler_QS.c): the per-worker instruction interpreter  *)
(* lf_sched_get_ready_reaction, the idle/wait procedure                    *)
(* _lf_sched_wait_for_work, and the trigger/completion API.                *)
(***************************************************************************)
EXTENDS Integers, Sequences, FiniteSets, TLC

\* ---------------------------------------------------------------- sizes

\* static_schedule.h: each schedule has three worker streams.
NUMBER_OF_WORKERS == 3

\* static_schedule.h: the total number of reactions.
reaction_count == 4

\* Size of the dependency semaphore pool (extern const int num_semaphores).
num_semaphores == 2

\* How often the administrative lf_sched_reset_pc may be called in one run.
MaxResets == 2

\* How often lf_sched_init may be called again in one run.
MaxInits == 1

Workers == 0 .. (NUMBER_OF_WORKERS - 1)
Reactions == 0 .. (reaction_count - 1)
Semaphores == 0 .. (num_semaphores - 1)

\* reaction_t.status
inactive == 0
queued == 1

\* A NULL reaction pointer, and "the worker has not called yet".
NULL == -1
NoReturn == -2

\* Owner of the global mutex when nobody holds it.
Unowned == -1

\* ---------------------------------------------------------------- programs

\* inst_t: an instruction character and its operand.
Inst(i, o) == [inst |-> i, op |-> o]

\* static_schedule.h, schedule 1: startup is present.
s1_w1 == << Inst("e", 0), Inst("e", 1), Inst("s", 0) >>
s1_w2 == << Inst("s", 0) >>
s1_w3 == << Inst("s", 0) >>
\* static_schedule.h, schedule 2: logical action is present.
s2_w1 == << Inst("e", 2), Inst("e", 3), Inst("s", 0) >>
s2_w2 == << Inst("s", 0) >>
s2_w3 == << Inst("s", 0) >>

s1 == [w \in Workers |-> CASE w = 0 -> s1_w1 [] w = 1 -> s1_w2 [] OTHER -> s1_w3]
s2 == [w \in Workers |-> CASE w = 0 -> s2_w1 [] w = 1 -> s2_w2 [] OTHER -> s2_w3]

\* The generated table of static_schedule.h, indexed [schedule][worker].
GeneratedSchedules == [i \in 0 .. 1 |-> IF i = 0 THEN s1 ELSE s2]

\* A second generated table, with Wait/Notify pairs across workers and with
\* per-worker lengths that differ between the two schedules.
d1 == [w \in Workers |->
        CASE w = 0 -> << Inst("e", 0), Inst("n", 0), Inst("s", 0) >>
          [] w = 1 -> << Inst("w", 0), Inst("e", 1), Inst("s", 0) >>
          [] OTHER -> << Inst("s", 0) >>]
d2 == [w \in Workers |->
        CASE w = 0 -> << Inst("s", 0) >>
          [] w = 1 -> << Inst("e", 2), Inst("n", 1), Inst("e", 3), Inst("s", 0) >>
          [] OTHER -> << Inst("w", 1), Inst("s", 0) >>]

DependentSchedules == [i \in 0 .. 1 |-> IF i = 0 THEN d1 ELSE d2]

\* A third generated table, in which reaction 0 is in the streams of two
\* workers in the first schedule and reaction 1 in the second.
h1 == [w \in Workers |->
        CASE w = 0 -> << Inst("e", 0), Inst("s", 0) >>
          [] w = 1 -> << Inst("e", 0), Inst("s", 0) >>
          [] OTHER -> << Inst("s", 0) >>]
h2 == [w \in Workers |->
        CASE w = 0 -> << Inst("e", 1), Inst("s", 0) >>
          [] w = 1 -> << Inst("s", 0) >>
          [] OTHER -> << Inst("e", 1), Inst("s", 0) >>]

SharedSchedules == [i \in 0 .. 1 |-> IF i = 0 THEN h1 ELSE h2]

\* The tables a run may be linked against.
Programs == { GeneratedSchedules, DependentSchedules }

\* ---------------------------------------------------------------- state

VARIABLES
    static_schedules,        \* _lf_sched_instance->static_schedules
    current_schedule_index,  \* _lf_sched_instance->current_schedule_index
    pc,                      \* _lf_sched_instance->pc[worker]
    semaphores,              \* counts of _lf_sched_instance->semaphores[i]
    status,                  \* reaction_instances[r]->status
    number_of_idle_workers,  \* _lf_sched_instance->_lf_sched_number_of_idle_workers
    sched_semaphore,         \* count of _lf_sched_instance->_lf_sched_semaphore
    should_stop,             \* _lf_sched_instance->_lf_sched_should_stop
    mutex,                   \* owner of the global mutex, or Unowned
    ctl,                     \* where each worker is in lf_sched_get_ready_reaction
    schedule_index,          \* the local schedule_index of each worker's call
    result,                  \* what each worker's last call returned
    executing,               \* the reaction the worker's driver is running
    tag,                     \* number of tags the tag advancer has moved past
    interpreted,             \* has the worker interpreted an instruction in this tag
    stopped_in_tag,          \* workers that executed their Stop in this tag
    election_log,            \* elections: tag, worker, count after the increment
    advance_log,             \* calls of tag advancement: tag, worker
    unlock_unheld,           \* lf_mutex_unlock was called on a mutex not held
    resets,                  \* administrative calls of lf_sched_reset_pc so far
    fatal,                   \* error_print_and_exit was called
    entry_pc,                \* *pc when the worker's current call began
    completed,               \* the reaction the worker completed since its last call
    notified,                \* semaphores a Notify was executed on in this tag
    init_calls,              \* calls of lf_sched_init after the first
    history                  \* is entry_pc recorded in this run

vars == << static_schedules, current_schedule_index, pc, semaphores, status,
           number_of_idle_workers, sched_semaphore, should_stop, mutex, ctl,
           schedule_index, result, executing, tag, interpreted, stopped_in_tag,
           election_log, advance_log, unlock_unheld, resets, fatal, entry_pc,
           completed, notified, init_calls, history >>

\* schedule_lengths[schedule][worker]: the true length of the stream.
schedule_lengths(i, w) == Len(static_schedules[i][w])

\* The stream taken with a fixed worker index: every worker reads the
\* stream of worker 0.
current_inst_Worker0(w) == static_schedules[schedule_index[w]][0][pc[w] + 1]

\* current_schedule[*pc] of worker w's call.
current_inst(w) == static_schedules[schedule_index[w]][w][pc[w] + 1]

\* The state after lf_sched_init: program counters and semaphores at zero,
\* schedule 0 bound, no worker idle, all reactions inactive.
Start(programs, h) ==
    /\ static_schedules \in programs
    /\ current_schedule_index = 0
    /\ pc = [w \in Workers |-> 0]
    /\ semaphores = [s \in Semaphores |-> 0]
    /\ status = [r \in Reactions |-> inactive]
    /\ number_of_idle_workers = 0
    /\ sched_semaphore = 0
    /\ should_stop = FALSE
    /\ mutex = Unowned
    /\ ctl = [w \in Workers |-> "out"]
    /\ schedule_index = [w \in Workers |-> 0]
    /\ result = [w \in Workers |-> NoReturn]
    /\ executing = [w \in Workers |-> NULL]
    /\ tag = 0
    /\ interpreted = [w \in Workers |-> FALSE]
    /\ stopped_in_tag = {}
    /\ election_log = {}
    /\ advance_log = {}
    /\ unlock_unheld = FALSE
    /\ resets = 0
    /\ fatal = FALSE
    /\ entry_pc = [w \in Workers |-> 0]
    /\ completed = [w \in Workers |-> NULL]
    /\ notified = [s \in Semaphores |-> FALSE]
    /\ init_calls = 0
    /\ history = h

\* A run linked against one of the two tables.
Init == Start(Programs, FALSE)

\* ---------------------------------------------------------------- primitives

\* lf_atomic_add_fetch(&number_of_idle_workers, 1): the value after the add.
lf_atomic_add_fetch(count) == count + 1

\* The test written with >= : a count past the worker count elects again.
is_last_idle_AtLeast(count) == count >= NUMBER_OF_WORKERS

\* The test off by one: the last but one worker to go idle is elected.
is_last_idle_Early(count) == count >= NUMBER_OF_WORKERS - 1

\* The test of _lf_sched_wait_for_work: is the caller the last to go idle.
is_last_idle(count) == count = NUMBER_OF_WORKERS

\* The loop condition of lf_sched_get_ready_reaction (loop_done is FALSE
\* whenever a worker is at the loop head: both places that set it leave).
loop_condition(w) == pc[w] < schedule_lengths(schedule_index[w], w)

\* The increment written as += 2: the next instruction is jumped over.
advance_pc_Twice(w) == [pc EXCEPT ![w] = pc[w] + 2]

\* "*pc += 1" at the end of the loop body.
advance_pc(w) == [pc EXCEPT ![w] = pc[w] + 1]

\* A reset whose loop never runs: the program counters stay as they are.
lf_sched_reset_pc_Skipped == pc

\* lf_sched_reset_pc: the program counters after the call.
lf_sched_reset_pc == [w \in Workers |-> 0]

\* One release too few: one idle worker is not woken.
signal_stop_releases_Short == NUMBER_OF_WORKERS - 2

\* The number of releases _lf_sched_signal_stop makes.
signal_stop_releases == NUMBER_OF_WORKERS - 1

\* _lf_sched_notify_workers: the number of releases it makes (the body is a
\* comment, so none).
notify_workers_releases == 0

\* lf_semaphore_release(semaphore, i): the count after the call.
lf_semaphore_release(count, i) == count + i

\* lf_semaphore_acquire / lf_semaphore_wait: pass when the count is positive,
\* the count after passing is one less.
lf_semaphore_can_pass(count) == count > 0
lf_semaphore_taken(count) == count - 1

\* lf_mutex_unlock by worker w: the owner gives the mutex up; a call by a
\* thread that does not hold it leaves the mutex alone and is an error.
lf_mutex_unlock(w) ==
    /\ mutex' = IF mutex = w THEN Unowned ELSE mutex
    /\ unlock_unheld' = (unlock_unheld \/ mutex # w)

\* ---------------------------------------------------------------- interpreter

\* A worker calls lf_sched_get_ready_reaction: it reads the schedule index
\* into its local and enters the loop.  The worker's driver calls only after
\* it has completed the reaction it was given.
GetReadyReaction(w) ==
    /\ ~fatal
    /\ ctl[w] = "out"
    /\ executing[w] = NULL
    /\ schedule_index' = [schedule_index EXCEPT ![w] = current_schedule_index]
    /\ result' = [result EXCEPT ![w] = NoReturn]
    /\ ctl' = [ctl EXCEPT ![w] = "loop"]
    /\ UNCHANGED << static_schedules, current_schedule_index, pc, semaphores,
                    status, number_of_idle_workers, sched_semaphore,
                    should_stop, mutex, executing, tag, interpreted,
                    stopped_in_tag, election_log, advance_log, unlock_unheld,
                    resets, fatal >>
    /\ entry_pc' = [entry_pc EXCEPT ![w] = IF history THEN pc[w] ELSE 0]
    /\ completed' = [completed EXCEPT ![w] = NULL]
    /\ UNCHANGED << notified, init_calls, history >>

\* The test of case 'e' skipped: every reaction is handed out.
is_ready_Always(r) == TRUE

\* The test of case 'e': react->status == queued.
is_ready(r) == status[r] = queued

\* Handing a reaction out marks it inactive at once.
status_after_execute_Dequeued(r) == [status EXCEPT ![r] = inactive]

\* The reaction statuses after case 'e' looked at reaction r: it writes none.
status_after_execute(r) == status

\* case 'e': a queued reaction is returned, any other is skipped; *pc += 1.
Execute(w) ==
    /\ ~fatal
    /\ ctl[w] = "loop"
    /\ loop_condition(w)
    /\ current_inst(w).inst = "e"
    /\ LET r == current_inst(w).op IN
         /\ IF is_ready(r)
              THEN /\ result' = [result EXCEPT ![w] = r]
                   /\ executing' = [executing EXCEPT ![w] = r]
                   /\ ctl' = [ctl EXCEPT ![w] = "out"]
                   /\ entry_pc' = [entry_pc EXCEPT ![w] = 0]
              ELSE UNCHANGED << result, executing, ctl, entry_pc >>
         /\ status' = status_after_execute(r)
    /\ pc' = advance_pc(w)
    /\ interpreted' = [interpreted EXCEPT ![w] = TRUE]
    /\ UNCHANGED << static_schedules, current_schedule_index, semaphores,
                    number_of_idle_workers, sched_semaphore,
                    should_stop, mutex, schedule_index, tag, stopped_in_tag,
                    election_log, advance_log, unlock_unheld, resets, fatal >>
    /\ UNCHANGED << completed, notified, init_calls, history >>

\* case 'w' without its call: the worker goes on whatever the count is.
Wait_Through(w) ==
    /\ ~fatal
    /\ ctl[w] = "loop"
    /\ loop_condition(w)
    /\ current_inst(w).inst = "w"
    /\ pc' = advance_pc(w)
    /\ interpreted' = [interpreted EXCEPT ![w] = TRUE]
    /\ UNCHANGED << static_schedules, current_schedule_index, semaphores,
                    status, number_of_idle_workers, sched_semaphore,
                    should_stop, mutex, ctl, schedule_index, result,
                    executing, tag, stopped_in_tag, election_log, advance_log,
                    unlock_unheld, resets, fatal >>
    /\ UNCHANGED << entry_pc, completed, notified, init_calls, history >>

\* case 'w': lf_semaphore_wait on the operand's semaphore; *pc += 1.
Wait(w) ==
    /\ ~fatal
    /\ ctl[w] = "loop"
    /\ loop_condition(w)
    /\ current_inst(w).inst = "w"
    /\ LET s == current_inst(w).op IN
         /\ lf_semaphore_can_pass(semaphores[s])
         /\ semaphores' = [semaphores EXCEPT ![s] = lf_semaphore_taken(@)]
    /\ pc' = advance_pc(w)
    /\ interpreted' = [interpreted EXCEPT ![w] = TRUE]
    /\ UNCHANGED << static_schedules, current_schedule_index, status,
                    number_of_idle_workers, sched_semaphore, should_stop,
                    mutex, ctl, schedule_index, result, executing, tag,
                    stopped_in_tag, election_log, advance_log, unlock_unheld,
                    resets, fatal >>
    /\ UNCHANGED << entry_pc, completed, notified, init_calls, history >>

\* case 'n': lf_semaphore_release(semaphore, 1); *pc += 1.
Notify(w) ==
    /\ ~fatal
    /\ ctl[w] = "loop"
    /\ loop_condition(w)
    /\ current_inst(w).inst = "n"
    /\ LET s == current_inst(w).op IN
         semaphores' = [semaphores EXCEPT ![s] = lf_semaphore_release(@, 1)]
    /\ pc' = advance_pc(w)
    /\ interpreted' = [interpreted EXCEPT ![w] = TRUE]
    /\ UNCHANGED << static_schedules, current_schedule_index, status,
                    number_of_idle_workers, sched_semaphore, should_stop,
                    mutex, ctl, schedule_index, result, executing, tag,
                    stopped_in_tag, election_log, advance_log, unlock_unheld,
                    resets, fatal >>
    /\ notified' = [notified EXCEPT ![current_inst(w).op] = TRUE]
    /\ UNCHANGED << entry_pc, completed, init_calls, history >>

\* case 's': loop_done = true and the first statement of
\* _lf_sched_wait_for_work, the atomic increment and its test.
Stop(w) ==
    /\ ~fatal
    /\ ctl[w] = "loop"
    /\ loop_condition(w)
    /\ current_inst(w).inst = "s"
    /\ LET n == lf_atomic_add_fetch(number_of_idle_workers) IN
         /\ number_of_idle_workers' = n
         /\ IF is_last_idle(n)
              THEN /\ ctl' = [ctl EXCEPT ![w] = "advance"]
                   /\ election_log' = election_log \cup
                         { [tag |-> tag, worker |-> w, count |-> n] }
              ELSE /\ ctl' = [ctl EXCEPT ![w] = "acquire"]
                   /\ UNCHANGED election_log
    /\ interpreted' = [interpreted EXCEPT ![w] = TRUE]
    /\ stopped_in_tag' = stopped_in_tag \cup {w}
    /\ UNCHANGED << static_schedules, current_schedule_index, pc, semaphores,
                    status, sched_semaphore, should_stop, mutex,
                    schedule_index, result, executing, tag, advance_log,
                    unlock_unheld, resets, fatal >>
    /\ UNCHANGED << entry_pc, completed, notified, init_calls, history >>

\* The loop written as do-while on a program counter at the end: the worker
\* goes idle once more before it returns.
LoopExit_Idles(w) ==
    /\ ~fatal
    /\ ctl[w] = "loop"
    /\ ~loop_condition(w)
    /\ number_of_idle_workers' = lf_atomic_add_fetch(number_of_idle_workers)
    /\ ctl' = [ctl EXCEPT ![w] = "acquire"]
    /\ UNCHANGED << static_schedules, current_schedule_index, pc, semaphores,
                    status, sched_semaphore, should_stop, mutex,
                    schedule_index, result, executing, tag, interpreted,
                    stopped_in_tag, election_log, advance_log, unlock_unheld,
                    resets, fatal >>
    /\ UNCHANGED << entry_pc, completed, notified, init_calls, history >>

\* The loop condition fails at the loop head: return returned_reaction,
\* which is still NULL.
LoopExit(w) ==
    /\ ~fatal
    /\ ctl[w] = "loop"
    /\ ~loop_condition(w)
    /\ result' = [result EXCEPT ![w] = NULL]
    /\ ctl' = [ctl EXCEPT ![w] = "out"]
    /\ UNCHANGED << static_schedules, current_schedule_index, pc, semaphores,
                    status, number_of_idle_workers, sched_semaphore,
                    should_stop, mutex, schedule_index, executing, tag,
                    interpreted, stopped_in_tag, election_log, advance_log,
                    unlock_unheld, resets, fatal >>
    /\ entry_pc' = [entry_pc EXCEPT ![w] = 0]
    /\ UNCHANGED << completed, notified, init_calls, history >>

\* ---------------------------------------------------------------- idle/wait

\* _lf_sched_advance_tag_locked returning true: the elected worker takes the
\* global mutex and the tag advancer reports that the stop tag is reached.
AdvanceTagStop(w) ==
    /\ ~fatal
    /\ ctl[w] = "advance"
    /\ mutex = Unowned
    /\ mutex' = w
    /\ advance_log' = advance_log \cup { [tag |-> tag, worker |-> w] }
    /\ ctl' = [ctl EXCEPT ![w] = "signal"]
    /\ UNCHANGED << static_schedules, current_schedule_index, pc, semaphores,
                    status, number_of_idle_workers, sched_semaphore,
                    should_stop, schedule_index, result, executing, tag,
                    interpreted, stopped_in_tag, election_log, unlock_unheld,
                    resets, fatal >>
    /\ UNCHANGED << entry_pc, completed, notified, init_calls, history >>

\* _lf_sched_advance_tag_locked returning false: the elected worker takes the
\* global mutex, the tag advances, the schedule i of the new tag is selected
\* and all program counters are reset against it.
AdvanceTagNext(w, i) ==
    /\ ~fatal
    /\ ctl[w] = "advance"
    /\ mutex = Unowned
    /\ mutex' = w
    /\ advance_log' = advance_log \cup { [tag |-> tag, worker |-> w] }
    /\ tag' = tag + 1
    /\ current_schedule_index' = i
    /\ pc' = lf_sched_reset_pc
    /\ interpreted' = [v \in Workers |-> FALSE]
    /\ stopped_in_tag' = {}
    /\ ctl' = [ctl EXCEPT ![w] = "unlock134"]
    /\ UNCHANGED << static_schedules, semaphores, status,
                    number_of_idle_workers, sched_semaphore, should_stop,
                    schedule_index, result, executing, election_log,
                    unlock_unheld, resets, fatal >>
    /\ notified' = [s \in Semaphores |-> FALSE]
    /\ UNCHANGED << entry_pc, completed, init_calls, history >>

\* _lf_sched_signal_stop: set the stop flag, release the new-work semaphore.
SignalStop(w) ==
    /\ ~fatal
    /\ ctl[w] = "signal"
    /\ should_stop' = TRUE
    /\ sched_semaphore' = lf_semaphore_release(sched_semaphore, signal_stop_releases)
    /\ ctl' = [ctl EXCEPT ![w] = "unlock132"]
    /\ UNCHANGED << static_schedules, current_schedule_index, pc, semaphores,
                    status, number_of_idle_workers, mutex, schedule_index,
                    result, executing, tag, interpreted, stopped_in_tag,
                    election_log, advance_log, unlock_unheld, resets, fatal >>
    /\ UNCHANGED << entry_pc, completed, notified, init_calls, history >>

\* lf_mutex_unlock(&mutex) inside the if, after _lf_sched_signal_stop.
UnlockAfterSignal(w) ==
    /\ ~fatal
    /\ ctl[w] = "unlock132"
    /\ lf_mutex_unlock(w)
    /\ ctl' = [ctl EXCEPT ![w] = "unlock134"]
    /\ UNCHANGED << static_schedules, current_schedule_index, pc, semaphores,
                    status, number_of_idle_workers, sched_semaphore,
                    should_stop, schedule_index, result, executing, tag,
                    interpreted, stopped_in_tag, election_log, advance_log,
                    resets, fatal >>
    /\ UNCHANGED << entry_pc, completed, notified, init_calls, history >>

\* lf_mutex_unlock(&mutex) after the if: reached on both paths.
Unlock(w) ==
    /\ ~fatal
    /\ ctl[w] = "unlock134"
    /\ lf_mutex_unlock(w)
    /\ ctl' = [ctl EXCEPT ![w] = "notify"]
    /\ UNCHANGED << static_schedules, current_schedule_index, pc, semaphores,
                    status, number_of_idle_workers, sched_semaphore,
                    should_stop, schedule_index, result, executing, tag,
                    interpreted, stopped_in_tag, election_log, advance_log,
                    resets, fatal >>
    /\ UNCHANGED << entry_pc, completed, notified, init_calls, history >>

\* _lf_sched_notify_workers, then the return of _lf_sched_wait_for_work.
NotifyWorkers(w) ==
    /\ ~fatal
    /\ ctl[w] = "notify"
    /\ sched_semaphore' = lf_semaphore_release(sched_semaphore, notify_workers_releases)
    /\ ctl' = [ctl EXCEPT ![w] = "incr"]
    /\ UNCHANGED << static_schedules, current_schedule_index, pc, semaphores,
                    status, number_of_idle_workers, should_stop, mutex,
                    schedule_index, result, executing, tag, interpreted,
                    stopped_in_tag, election_log, advance_log, unlock_unheld,
                    resets, fatal >>
    /\ UNCHANGED << entry_pc, completed, notified, init_calls, history >>

\* lf_semaphore_acquire(_lf_sched_semaphore) by a worker that was not the
\* last to go idle.
Acquire(w) ==
    /\ ~fatal
    /\ ctl[w] = "acquire"
    /\ lf_semaphore_can_pass(sched_semaphore)
    /\ sched_semaphore' = lf_semaphore_taken(sched_semaphore)
    /\ ctl' = [ctl EXCEPT ![w] = "incr"]
    /\ UNCHANGED << static_schedules, current_schedule_index, pc, semaphores,
                    status, number_of_idle_workers, should_stop, mutex,
                    schedule_index, result, executing, tag, interpreted,
                    stopped_in_tag, election_log, advance_log, unlock_unheld,
                    resets, fatal >>
    /\ UNCHANGED << entry_pc, completed, notified, init_calls, history >>

\* After _lf_sched_wait_for_work returns in case 's': *pc += 1, the loop
\* ends because loop_done is true, and returned_reaction (NULL) is returned.
StopReturn(w) ==
    /\ ~fatal
    /\ ctl[w] = "incr"
    /\ pc' = advance_pc(w)
    /\ result' = [result EXCEPT ![w] = NULL]
    /\ ctl' = [ctl EXCEPT ![w] = "out"]
    /\ UNCHANGED << static_schedules, current_schedule_index, semaphores,
                    status, number_of_idle_workers, sched_semaphore,
                    should_stop, mutex, schedule_index, executing, tag,
                    interpreted, stopped_in_tag, election_log, advance_log,
                    unlock_unheld, resets, fatal >>
    /\ entry_pc' = [entry_pc EXCEPT ![w] = 0]
    /\ UNCHANGED << completed, notified, init_calls, history >>

\* ---------------------------------------------------------------- API

\* A plain store in place of the compare-and-swap: it always "succeeds".
done_swap_succeeds_Store(r) == TRUE

\* lf_bool_compare_and_swap(&done_reaction->status, queued, inactive): does
\* the swap find queued.
done_swap_succeeds(r) == status[r] = queued

\* The body of lf_sched_done_with_reaction for reaction r: a successful swap
\* has written inactive, a failed one calls error_print_and_exit.
done_with_reaction(r) ==
    IF done_swap_succeeds(r)
      THEN /\ status' = [status EXCEPT ![r] = inactive]
           /\ UNCHANGED fatal
      ELSE /\ fatal' = TRUE
           /\ UNCHANGED status

\* lf_sched_done_with_reaction called by the worker for the reaction it was
\* given.
DoneWithReaction(w) ==
    /\ ~fatal
    /\ ctl[w] = "out"
    /\ executing[w] # NULL
    /\ done_with_reaction(executing[w])
    /\ executing' = [executing EXCEPT ![w] = NULL]
    /\ completed' = [completed EXCEPT ![w] = executing[w]]
    /\ UNCHANGED << static_schedules, current_schedule_index, pc, semaphores,
                    number_of_idle_workers, sched_semaphore, should_stop,
                    mutex, ctl, schedule_index, result, tag, interpreted,
                    stopped_in_tag, election_log, advance_log, unlock_unheld,
                    resets >>
    /\ UNCHANGED << entry_pc, notified, init_calls, history >>

\* lf_sched_done_with_reaction called a second time by the worker for the
\* reaction it has already completed, before it asks for another.
DoneWithReactionAgain(w) ==
    /\ ~fatal
    /\ ctl[w] = "out"
    /\ executing[w] = NULL
    /\ completed[w] # NULL
    /\ done_with_reaction(completed[w])
    /\ completed' = [completed EXCEPT ![w] = NULL]
    /\ UNCHANGED << static_schedules, current_schedule_index, pc, semaphores,
                    number_of_idle_workers, sched_semaphore, should_stop,
                    mutex, ctl, schedule_index, result, executing, tag,
                    interpreted, stopped_in_tag, election_log, advance_log,
                    unlock_unheld, resets >>
    /\ UNCHANGED << entry_pc, notified, init_calls, history >>

\* lf_sched_trigger_reaction: reaction->status = queued.
TriggerReaction(r) ==
    /\ ~fatal
    /\ status' = [status EXCEPT ![r] = queued]
    /\ UNCHANGED << static_schedules, current_schedule_index, pc, semaphores,
                    number_of_idle_workers, sched_semaphore, should_stop,
                    mutex, ctl, schedule_index, result, executing, tag,
                    interpreted, stopped_in_tag, election_log, advance_log,
                    unlock_unheld, resets, fatal >>
    /\ UNCHANGED << entry_pc, completed, notified, init_calls, history >>

\* lf_sched_reset_pc called by the harness to re-arm the schedule, while no
\* worker is inside lf_sched_get_ready_reaction.
ResetPc ==
    /\ ~fatal
    /\ resets < MaxResets
    /\ \A w \in Workers : ctl[w] = "out"
    /\ pc' = lf_sched_reset_pc
    /\ resets' = resets + 1
    /\ UNCHANGED << static_schedules, current_schedule_index, semaphores,
                    status, number_of_idle_workers, sched_semaphore,
                    should_stop, mutex, ctl, schedule_index, result,
                    executing, tag, interpreted, stopped_in_tag, election_log,
                    advance_log, unlock_unheld, fatal >>
    /\ UNCHANGED << entry_pc, completed, notified, init_calls, history >>

\* ---------------------------------------------------------------- behaviours

\* The steps a worker thread takes by itself once it is inside a call.
WorkerStep(w) ==
    \/ Execute(w)
    \/ Wait(w)
    \/ Notify(w)
    \/ Stop(w)
    \/ LoopExit(w)
    \/ AdvanceTagStop(w)
    \/ \E i \in DOMAIN static_schedules : AdvanceTagNext(w, i)
    \/ SignalStop(w)
    \/ UnlockAfterSignal(w)
    \/ Unlock(w)
    \/ NotifyWorkers(w)
    \/ Acquire(w)
    \/ StopReturn(w)

Next ==
    \/ \E w \in Workers : GetReadyReaction(w)
    \/ \E w \in Workers : WorkerStep(w)
    \/ \E w \in Workers : DoneWithReaction(w)
    \/ \E r \in Reactions : TriggerReaction(r)
    \/ ResetPc

Spec == Init /\ [][Next]_vars

\* Worker threads are scheduled by the operating system: a worker whose next
\* step stays possible eventually takes it.
FairSpec == Spec /\ \A w \in Workers : WF_vars(WorkerStep(w))

\* ---------------------------------------------------------------- second init

\* init_sched_instance: true when the scheduler had not been initialized.
\* Every state of the model is after the first lf_sched_init.
init_sched_instance == FALSE

\* The else branch dropped: lf_sched_init goes on to the QS-specific fields.
init_proceeds_Always(fresh) == TRUE

\* lf_sched_init: it goes on to the QS-specific fields only when
\* init_sched_instance reported a fresh instance, else it returns.
init_proceeds(fresh) == fresh

\* lf_sched_init called on the initialized scheduler.
LfSchedInit ==
    /\ ~fatal
    /\ init_calls < MaxInits
    /\ init_calls' = init_calls + 1
    /\ IF init_proceeds(init_sched_instance)
         THEN /\ current_schedule_index' = 0
              /\ pc' = [w \in Workers |-> 0]
              /\ semaphores' = [s \in Semaphores |-> 0]
         ELSE UNCHANGED << current_schedule_index, pc, semaphores >>
    /\ UNCHANGED << static_schedules, status, number_of_idle_workers,
                    sched_semaphore, should_stop, mutex, ctl, schedule_index,
                    result, executing, tag, interpreted, stopped_in_tag,
                    election_log, advance_log, unlock_unheld, resets, fatal,
                    entry_pc, completed, notified, history >>

\* A run linked against any of the three tables, with the entry program
\* counter of every call recorded.
ApiInit == Start(Programs \cup { SharedSchedules }, TRUE)

\* The API with a driver that may complete a reaction twice.
ApiNext ==
    \/ Next
    \/ \E w \in Workers : DoneWithReactionAgain(w)

ApiSpec == ApiInit /\ [][ApiNext]_vars

\* The API with lf_sched_init called again at any time.
InitNext ==
    \/ Next
    \/ LfSchedInit

InitSpec == Init /\ [][InitNext]_vars

\* The worker's driver: it completes the reaction it was given and asks for
\* the next one.
DriverStep(w) == GetReadyReaction(w) \/ DoneWithReaction(w)

\* Fair workers whose drivers keep running.
LiveSpec == FairSpec /\ \A w \in Workers : WF_vars(DriverStep(w))

\* ---------------------------------------------------------------- properties

\* The elected worker is inside the election branch of _lf_sched_wait_for_work.
Elected(w) == ctl[w] \in { "advance", "signal", "unlock132", "unlock134", "notify" }

\* Worker w's call has returned "none".
ReturnedNone(w) == ctl[w] = "out" /\ result[w] = NULL

\* C1: when all workers are parked at Stop and the tag advancer reports the
\* terminal tag, the elected worker sets should_stop and releases the new-work
\* semaphore worker_count - 1 times, and then every worker's pending
\* get_ready_reaction call eventually returns "none".
C1_StopReleasesAll ==
    /\ [][ \A e \in Workers :
             (ctl[e] = "signal" /\ ctl'[e] # "signal")
                => /\ should_stop'
                   /\ sched_semaphore' = sched_semaphore + (NUMBER_OF_WORKERS - 1) ]_vars
    /\ \A w \in Workers :
         (\E e \in Workers : ctl[e] = "signal") ~> ReturnedNone(w)

\* Scenario A at its end: the streams of static_schedule.h, the stop flag set
\* and every worker's call returned "none".
C1_Witness ==
    /\ static_schedules = GeneratedSchedules
    /\ should_stop
    /\ \A w \in Workers : ReturnedNone(w)

\* C2 (as claimed): after a non-terminal tag advancement every non-elected
\* worker blocked on the new-work semaphore is eventually released and
\* resumes interpretation from program counter 0.
C2_Orig ==
    \A w \in Workers :
        (/\ ctl[w] = "acquire"
         /\ ~should_stop
         /\ \E e \in Workers : ctl[e] = "unlock134")
            ~> (ctl[w] = "loop" /\ pc[w] = 0)

\* C3 (as claimed): get_ready_reaction returns "none" only after should_stop
\* has been set.
C3_Orig == \A w \in Workers : ReturnedNone(w) => should_stop

\* C4 (as claimed): every unlock of the global lock is made by the worker
\* that holds it; the lock is never unlocked while unheld or twice.
C4_Orig == ~unlock_unheld

\* C5: no program counter exceeds the length of the worker's stream in the
\* active schedule.
C5_PcWithinLength ==
    \A w \in Workers : pc[w] <= schedule_lengths(current_schedule_index, w)

\* A new tag under the schedule whose lengths differ from the first one's,
\* with the elected worker past its one-instruction stream.
C5_Witness ==
    /\ static_schedules = DependentSchedules
    /\ tag = 1
    /\ current_schedule_index = 1
    /\ pc[0] = schedule_lengths(1, 0)
    /\ schedule_lengths(0, 0) > schedule_lengths(1, 0)

\* C6 (as claimed): the first instruction a worker interprets in a new tag is
\* instruction 0 of the newly selected schedule, and while the elected worker
\* still holds the lock after publishing the new tag no other worker runs.
C6_Orig ==
    /\ \A w \in Workers :
         (ctl[w] \in { "out", "loop" } /\ ~interpreted[w])
            => /\ pc[w] = 0
               /\ ctl[w] = "loop" => schedule_index[w] = current_schedule_index
    /\ \A e, w \in Workers :
         (e # w /\ mutex = e /\ ctl[e] = "unlock134" /\ ~should_stop)
            => ctl[w] = "acquire"

\* C7 (as claimed): idle_worker_count has been reset to 0 by the time the
\* new-work semaphore is released to the other workers.
C7_Orig ==
    [][ sched_semaphore' > sched_semaphore => number_of_idle_workers = 0 ]_vars

\* C8 (as claimed): idle_worker_count never exceeds the worker count.
C8_Orig == number_of_idle_workers <= NUMBER_OF_WORKERS

\* C9: in a tag at most one worker is elected, it is the one whose increment
\* gave worker_count, tag advancement is called at most once per tag and only
\* by the elected worker, and once all workers have executed their Stop in a
\* tag there has been an election in it.
C9_OneElectionPerTag ==
    /\ \A a, b \in election_log : a.tag = b.tag => a = b
    /\ \A a \in election_log : a.count = NUMBER_OF_WORKERS
    /\ \A a, b \in advance_log : a.tag = b.tag => a = b
    /\ \A a \in advance_log :
         \E b \in election_log : b.tag = a.tag /\ b.worker = a.worker
    /\ Cardinality({ w \in Workers : Elected(w) }) <= 1
    /\ stopped_in_tag = Workers => \E a \in election_log : a.tag = tag

\* All workers have executed Stop in the tag and the elected one has called
\* tag advancement.
C9_Witness ==
    /\ stopped_in_tag = Workers
    /\ \E a \in advance_log : a.tag = tag

\* C10: while the elected worker is about to run or has just run tag
\* advancement and still holds its result, every other worker is blocked on
\* the new-work semaphore and holds no uncompleted reaction.
C10_AdvanceAlone ==
    \A e \in Workers :
        (\/ ctl[e] \in { "advance", "signal" }
         \/ (ctl[e] = "unlock134" /\ ~should_stop))
            => \A w \in Workers \ {e} :
                 /\ ctl[w] = "acquire"
                 /\ executing[w] = NULL

\* The elected worker holds the mutex of a tag advancement whose tag had
\* reactions executed by worker 0.
C10_Witness ==
    /\ \E e \in Workers : ctl[e] = "unlock134" /\ mutex = e /\ ~should_stop
    /\ pc[0] = 0
    /\ \E r \in Reactions : status[r] = queued

\* The stream worker w's call interprets.
current_schedule(w) == static_schedules[schedule_index[w]][w]

\* Worker w is at the loop head in front of an instruction of kind k.
AtInst(w, k) ==
    /\ ctl[w] = "loop"
    /\ loop_condition(w)
    /\ current_inst(w).inst = k

\* C11: a call that returns a reaction returns the reaction of an Execute at
\* or after the program counter the call began with, whose status is queued,
\* with no Stop between the two, and leaves the program counter one past it;
\* and no call steps past an Execute whose reaction is queued.
C11_FirstQueuedExecute ==
    [][ \A w \in Workers :
          /\ (ctl[w] = "loop" /\ ctl'[w] = "out" /\ result'[w] # NULL)
                => /\ loop_condition(w)
                   /\ current_inst(w) = Inst("e", result'[w])
                   /\ status[result'[w]] = queued
                   /\ pc'[w] = pc[w] + 1
                   /\ entry_pc[w] <= pc[w]
                   /\ \A q \in entry_pc[w] .. (pc[w] - 1) :
                        current_schedule(w)[q + 1].inst # "s"
          /\ (AtInst(w, "e") /\ status[current_inst(w).op] = queued
                /\ pc'[w] # pc[w])
                => /\ ctl'[w] = "out"
                   /\ result'[w] = current_inst(w).op ]_vars

\* Worker 1 of the table with dependencies has passed its Wait and was given
\* reaction 1 by the Execute behind it.
C11_Witness ==
    /\ history
    /\ static_schedules = DependentSchedules
    /\ tag = 0
    /\ ctl[1] = "out"
    /\ executing[1] = 1
    /\ pc[1] = 2

\* C12: an Execute whose reaction is not queued is skipped: no fatal error,
\* nothing returned, the status left as it is, the program counter one on.
C12_SkipInactive ==
    [][ \A w \in Workers :
          (AtInst(w, "e") /\ status[current_inst(w).op] # queued
             /\ pc'[w] # pc[w])
             => /\ ~fatal'
                /\ ctl'[w] = "loop"
                /\ result'[w] = result[w]
                /\ executing'[w] = executing[w]
                /\ status' = status
                /\ pc'[w] = pc[w] + 1 ]_vars

\* A call of worker 0 has stepped over an Execute whose reaction is inactive
\* and is still running.
C12_Witness ==
    /\ history
    /\ ctl[0] = "loop"
    /\ pc[0] > entry_pc[0]
    /\ current_schedule(0)[pc[0]].inst = "e"
    /\ status[current_schedule(0)[pc[0]].op] = inactive
    /\ ~fatal

\* What a call of done_with_reaction on reaction r must do: change queued to
\* inactive when it finds queued, else end fatally with the status as it was.
DoneEffect(r) ==
    IF status[r] = queued
      THEN /\ status' = [status EXCEPT ![r] = inactive]
           /\ ~fatal'
      ELSE /\ fatal'
           /\ status' = status

\* The step is a call of done_with_reaction by worker w on reaction r: the
\* completion of the reaction it was given, or a second completion of it.
DoneCall(w, r) ==
    \/ executing[w] = r /\ r # NULL /\ executing'[w] = NULL
    \/ /\ completed[w] = r /\ r # NULL /\ completed'[w] = NULL
       /\ ctl[w] = "out" /\ ctl'[w] = "out"

\* C13: done_with_reaction changes the status from queued to inactive when
\* it observes queued and is fatal, with the status unchanged, otherwise: so
\* a second completion with no trigger in between is fatal, whoever makes it.
C13_DoneSwapsOrFails ==
    [][ \A w \in Workers : \A r \in Reactions :
          DoneCall(w, r) => DoneEffect(r) ]_vars

\* Two workers were given reaction 0 at once; one completion succeeded and
\* the other ended fatally.
C13_Witness ==
    /\ static_schedules = SharedSchedules
    /\ fatal
    /\ completed[0] = 0
    /\ completed[1] = 0
    /\ status[0] = inactive

\* The step changes nothing but reaction statuses, as a call of
\* trigger_reaction does.
TriggerCall ==
    UNCHANGED << static_schedules, current_schedule_index, pc, semaphores,
                 number_of_idle_workers, sched_semaphore, should_stop, mutex,
                 ctl, schedule_index, result, executing, tag, interpreted,
                 stopped_in_tag, election_log, advance_log, unlock_unheld,
                 resets, fatal, entry_pc, completed, notified, init_calls,
                 history >>

\* C14: a status changes from inactive to queued only in a call of
\* trigger_reaction and from queued to inactive only in a call of
\* done_with_reaction on that reaction; no other step changes a status.
C14_StatusOnlyByApi ==
    [][ \A r \in Reactions :
          status'[r] # status[r]
             => \/ /\ status[r] = inactive /\ status'[r] = queued
                   /\ TriggerCall
                \/ /\ status[r] = queued /\ status'[r] = inactive
                   /\ \E w \in Workers : DoneCall(w, r) ]_vars

\* Reaction 0 was triggered, handed out to worker 0, completed by it and
\* triggered again: inactive, queued, inactive, queued.
C14_Witness ==
    /\ ctl[0] = "out"
    /\ executing[0] = NULL
    /\ completed[0] = 0
    /\ status[0] = queued

\* C15 (as claimed): with every Wait matched by a Notify and every returned
\* reaction completed, every worker eventually reaches its Stop instruction
\* in the tag, whichever tag it is.
C15_Orig ==
    \A w \in Workers : (w \notin stopped_in_tag) ~> (w \in stopped_in_tag)

\* The step is worker w interpreting the instruction at its program counter.
Interprets(w) ==
    /\ ctl[w] = "loop"
    /\ loop_condition(w)
    /\ << pc[w], ctl[w] >>' # << pc[w], ctl[w] >>

\* The semaphores of the Wait instructions in front of worker w's program
\* counter in the stream its call interprets.
WaitsBefore(w) ==
    { current_schedule(w)[q].op :
        q \in { k \in 1 .. pc[w] : current_schedule(w)[k].inst = "w" } }

\* C16 (as claimed): in a tag, a worker interprets an instruction that
\* follows Wait(s) in its stream only after some worker has executed
\* Notify(s) in that tag.
C16_Orig ==
    [][ \A w \in Workers :
          Interprets(w) => \A s \in WaitsBefore(w) : notified[s] ]_vars

\* C17 (as claimed): once should_stop is set no worker interprets another
\* instruction, and every call that returns from then on returns "none".
C17_Orig ==
    [][ should_stop =>
          \A w \in Workers :
             /\ ~Interprets(w)
             /\ (ctl[w] # "out" /\ ctl'[w] = "out") => result'[w] = NULL ]_vars

\* C18: a call of lf_sched_init on the initialized scheduler leaves the
\* scheduler state as it is: program counters, schedule index, semaphores,
\* schedule table, reaction statuses, idle count, stop flag and the rest.
C18_InitIdempotent ==
    [][ init_calls' # init_calls =>
          UNCHANGED << static_schedules, current_schedule_index, pc,
                       semaphores, status, number_of_idle_workers,
                       sched_semaphore, should_stop, mutex, ctl,
                       schedule_index, result, executing, tag, fatal >> ]_vars

\* lf_sched_init was called again after a worker had released a dependency
\* semaphore and advanced its program counter, under the second schedule.
C18_Witness ==
    /\ init_calls > 0
    /\ current_schedule_index = 1
    /\ \E w \in Workers : pc[w] > 1
    /\ \E s \in Semaphores : semaphores[s] > 0

\* C19: the dependency semaphores start at 0 and are never negative; a worker
\* passes Wait(s) only when the count of s is positive and passing takes one
\* from it; Notify(s) adds one; nothing else changes a count.
C19_WaitDecrementOrBlock ==
    /\ [](\A s \in Semaphores :
            /\ semaphores[s] >= 0
            /\ (tag = 0 /\ ~notified[s]) => semaphores[s] = 0)
    /\ [][ /\ \A w \in Workers :
                (AtInst(w, "w") /\ pc'[w] # pc[w])
                   => LET s == current_inst(w).op IN
                        /\ semaphores[s] > 0
                        /\ semaphores' =
                              [semaphores EXCEPT ![s] = semaphores[s] - 1]
           /\ \A w \in Workers :
                (AtInst(w, "n") /\ pc'[w] # pc[w])
                   => LET s == current_inst(w).op IN
                        semaphores' =
                           [semaphores EXCEPT ![s] = semaphores[s] + 1]
           /\ semaphores' # semaphores
                => \E w \in Workers :
                     /\ AtInst(w, "w") \/ AtInst(w, "n")
                     /\ pc'[w] # pc[w] ]_vars

\* Worker 1 has passed its Wait(0) after worker 0's Notify(0) and took the
\* only permit, while worker 2 of the same table has not started.
C19_Witness ==
    /\ static_schedules = DependentSchedules
    /\ tag = 0
    /\ resets = 0
    /\ notified[0]
    /\ pc[1] = 1
    /\ interpreted[1]
    /\ semaphores[0] = 0

\* Worker w is inside a call with its program counter at the end of its
\* stream.
AtEnd(w) == ctl[w] = "loop" /\ ~loop_condition(w)

\* C20: a call made with the program counter at the end of the stream returns
\* "none" without blocking and changes nothing of the scheduler state: not the
\* idle count, no semaphore, no election and no tag advancement.
C20_CallAtEndIsNoOp ==
    /\ [](\A w \in Workers : (AtEnd(w) /\ ~fatal) => ENABLED LoopExit(w))
    /\ [][ \A w \in Workers :
             LET at_end == pc[w] >= schedule_lengths(current_schedule_index, w)
                 enters == ctl[w] = "out" /\ ctl'[w] = "loop" /\ at_end
                 leaves == AtEnd(w) /\ ctl'[w] # "loop"
             IN  /\ enters => AtEnd(w)'
                 /\ leaves => ctl'[w] = "out" /\ result'[w] = NULL
                 /\ (enters \/ leaves) =>
                      UNCHANGED << static_schedules, current_schedule_index,
                                   pc, semaphores, status,
                                   number_of_idle_workers, sched_semaphore,
                                   should_stop, mutex, executing, tag,
                                   stopped_in_tag, election_log, advance_log,
                                   fatal >> ]_vars

\* After the stop, worker 0 has called again with its program counter at the
\* end of its stream and is about to return, worker 1 has already returned.
C20_Witness ==
    /\ should_stop
    /\ resets = 0
    /\ AtEnd(0)
    /\ pc[0] = schedule_lengths(schedule_index[0], 0)
    /\ ReturnedNone(1)
    /\ number_of_idle_workers = NUMBER_OF_WORKERS

\* Every reaction id is in at most one Execute instruction of schedule i.
UniqueExecutes(i) ==
    \A r \in Reactions :
        Cardinality(UNION { { << w, k >> :
                                k \in { j \in DOMAIN static_schedules[i][w] :
                                          static_schedules[i][w][j] = Inst("e", r) } } :
                            w \in Workers }) <= 1

\* C21: when every reaction id is in at most one Execute of the active
\* schedule, no reaction is held by two workers at once: a call returns
\* reaction r only while no other worker holds r uncompleted; and the call
\* that returns r leaves its status queued.
C21_NoDoubleHandout ==
    /\ [](UniqueExecutes(current_schedule_index) =>
            \A v, w \in Workers :
               (v # w /\ executing[v] # NULL) => executing[w] # executing[v])
    /\ [][ \A w \in Workers :
             (ctl[w] = "loop" /\ ctl'[w] = "out" /\ result'[w] # NULL)
                => /\ executing'[w] = result'[w]
                   /\ status'[result'[w]] = queued
                   /\ UniqueExecutes(current_schedule_index) =>
                        \A v \in Workers \ {w} : executing[v] # result'[w] ]_vars

\* Worker 0 holds reaction 0, still queued, while worker 1 is inside a call
\* of its own and reaction 1 is queued as well.
C21_Witness ==
    /\ static_schedules = DependentSchedules
    /\ UniqueExecutes(current_schedule_index)
    /\ executing[0] = 0
    /\ status[0] = queued
    /\ ctl[1] = "loop"
    /\ status[1] = queued

====
